---- MODULE Spec2Model ----
(***************************************************************************)
(* A model of !specialcharstweak.py: the whitelist escaper, the two        *)
(* regular-expression rewrites and the directory walk that applies them.   *)
(* Text is a sequence of one-character strings.                            *)
(***************************************************************************)
EXTENDS Integers, Sequences, FiniteSets, TLC

BS == "\\"
DQ == "\""
SQ == "'"
NL == "\n"

(***************************************************************************)
(* Bounds of the model.                                                    *)
(***************************************************************************)
\* the longest string given to escape_str on its own
MaxEsc == 4
\* the longest whitelist, the listed ones apart
MaxWl == 2
\* the most lines a file holds
MaxLines == 2

(***************************************************************************)
(* Text helpers.                                                           *)
(***************************************************************************)
Tail_(s, i) == SubSeq(s, i, Len(s))

StartsAt(s, i, w) == /\ i >= 1
                     /\ i + Len(w) - 1 <= Len(s)
                     /\ SubSeq(s, i, i + Len(w) - 1) = w

RECURSIVE ReplaceFrom(_, _, _, _)
ReplaceFrom(s, i, old, new) ==
    IF i > Len(s) THEN << >>
    ELSE IF StartsAt(s, i, old)
         THEN new \o ReplaceFrom(s, i + Len(old), old, new)
         ELSE << s[i] >> \o ReplaceFrom(s, i + 1, old, new)

\* str.replace(old, new) for a non-empty old: left to right, non-overlapping
Replace(s, old, new) == ReplaceFrom(s, 1, old, new)

(***************************************************************************)
(* escape_str                                                              *)
(***************************************************************************)
escape_str_NoBackslash(s, single_quote) ==
    LET escaped == Replace(s, << BS, "n" >>, << BS, BS, "n" >>)
    IN  IF single_quote
        THEN Replace(escaped, << SQ >>, << BS, SQ >>)
        ELSE Replace(escaped, << DQ >>, << BS, DQ >>)

escape_str(s, single_quote) ==
    LET escaped == Replace(Replace(s, << BS >>, << BS, BS >>),
                           << BS, "n" >>, << BS, BS, "n" >>)
    IN  IF single_quote
        THEN Replace(escaped, << SQ >>, << BS, SQ >>)
        ELSE Replace(escaped, << DQ >>, << BS, DQ >>)

(***************************************************************************)
(* The replacement template of re.sub.  A template is parsed once, before  *)
(* any match is looked for, into literal characters and group references;  *)
(* a backslash pair in it is an escape of the template language.           *)
(***************************************************************************)
Digits == {"0", "1", "2", "3", "4", "5", "6", "7", "8", "9"}
OctDigits == {"0", "1", "2", "3", "4", "5", "6", "7"}
AsciiLetters == {"a", "b", "c", "d", "e", "f", "g", "h", "i", "j", "k", "l", "m",
                 "n", "o", "p", "q", "r", "s", "t", "u", "v", "w", "x", "y", "z",
                 "A", "B", "C", "D", "E", "F", "G", "H", "I", "J", "K", "L", "M",
                 "N", "O", "P", "Q", "R", "S", "T", "U", "V", "W", "X", "Y", "Z"}

DigitVal(c) == CASE c = "0" -> 0 [] c = "1" -> 1 [] c = "2" -> 2 [] c = "3" -> 3
                 [] c = "4" -> 4 [] c = "5" -> 5 [] c = "6" -> 6 [] c = "7" -> 7
                 [] c = "8" -> 8 [] c = "9" -> 9

\* the character with code point v, other than the ones the model writes out
Chr(v) == "chr(" \o ToString(v) \o ")"

Lit(c) == [group |-> 0, ch |-> c]
Group(g) == [group |-> g, ch |-> ""]
TemplateError == [ok |-> FALSE, items |-> << >>]

\* the escapes of the template language that stand for one character
EscapeChar(c) == CASE c = BS -> BS
                   [] c = "n" -> NL
                   [] c = "a" -> Chr(7)
                   [] c = "b" -> Chr(8)
                   [] c = "f" -> Chr(12)
                   [] c = "r" -> Chr(13)
                   [] c = "t" -> Chr(9)
                   [] c = "v" -> Chr(11)
                   [] OTHER -> ""

RECURSIVE parse_template_from(_, _, _)
parse_template_from(t, i, groups) ==
    LET Rest(k, item) ==
            LET r == parse_template_from(t, k, groups)
            IN  IF r.ok THEN [ok |-> TRUE, items |-> << item >> \o r.items]
                ELSE TemplateError
        At(k) == IF k <= Len(t) THEN t[k] ELSE ""
    IN
    IF i > Len(t) THEN [ok |-> TRUE, items |-> << >>]
    ELSE IF t[i] # BS THEN Rest(i + 1, Lit(t[i]))
    ELSE IF i = Len(t) THEN TemplateError            \* bad escape (end of pattern)
    ELSE LET c == t[i + 1] IN
         IF c = "g" THEN TemplateError               \* \g<name>: not written by this program
         ELSE IF c = "0" THEN
              IF At(i + 2) \in OctDigits
              THEN IF At(i + 3) \in OctDigits
                   THEN Rest(i + 4, Lit(Chr((8 * DigitVal(t[i + 2]) + DigitVal(t[i + 3])) % 256)))
                   ELSE Rest(i + 3, Lit(Chr(DigitVal(t[i + 2]))))
              ELSE Rest(i + 2, Lit(Chr(0)))
         ELSE IF c \in Digits THEN
              IF At(i + 2) \in Digits
              THEN IF c \in OctDigits /\ t[i + 2] \in OctDigits /\ At(i + 3) \in OctDigits
                   THEN LET v == 64 * DigitVal(c) + 8 * DigitVal(t[i + 2]) + DigitVal(t[i + 3])
                        IN  IF v > 255 THEN TemplateError   \* octal escape out of range
                            ELSE Rest(i + 4, Lit(Chr(v)))
                   ELSE LET g == 10 * DigitVal(c) + DigitVal(t[i + 2])
                        IN  IF g > groups THEN TemplateError \* invalid group reference
                            ELSE Rest(i + 3, Group(g))
              ELSE IF DigitVal(c) > groups THEN TemplateError
                   ELSE Rest(i + 2, Group(DigitVal(c)))
         ELSE IF EscapeChar(c) # "" THEN Rest(i + 2, Lit(EscapeChar(c)))
         ELSE IF c \in AsciiLetters THEN TemplateError   \* bad escape
         ELSE LET r == parse_template_from(t, i + 2, groups)
              IN  IF r.ok THEN [ok |-> TRUE, items |-> << Lit(BS), Lit(c) >> \o r.items]
                  ELSE TemplateError

parse_template(t, groups) == parse_template_from(t, 1, groups)

RECURSIVE expand_template(_, _)
\* g[k] is the text of group k of the match
expand_template(items, g) ==
    IF items = << >> THEN << >>
    ELSE LET it == Head(items)
         IN  (IF it.group = 0 THEN << it.ch >> ELSE g[it.group])
             \o expand_template(Tail(items), g)

(***************************************************************************)
(* The regular expressions.  Neither [^\n] nor . matches a newline, so a   *)
(* match lies within one line.  Each matcher follows the backtracking      *)
(* search: leftmost start, every starred item as long as it can be.        *)
(***************************************************************************)
NoMatch == [found |-> FALSE, start |-> 0, g1end |-> 0, g2end |-> 0, end |-> 0]

RECURSIVE RunEnd(_, _)
\* the last position of the longest newline-free run that starts at i (i - 1 when empty)
RunEnd(s, i) == IF i > Len(s) \/ s[i] = NL THEN i - 1 ELSE RunEnd(s, i + 1)

RECURSIVE LastAt(_, _, _, _)
\* X*c where X* has consumed lo..hi: give back one character at a time until c follows
LastAt(s, c, lo, m) == IF m < lo THEN 0
                       ELSE IF s[m] = c THEN m
                       ELSE LastAt(s, c, lo, m - 1)

LowerUpper == << "a", "-", "z", "A", "-", "Z" >>
UpperLower == << "A", "-", "Z", "a", "-", "z" >>

Group2EndAnyLetter(s, p) ==
    IF p <= Len(s) /\ s[p] \in AsciiLetters THEN p ELSE 0

\* group 2, (a-zA-Z|A-Za-z), at position p: its last position, or 0
Group2End(s, p) == IF StartsAt(s, p, LowerUpper) THEN p + Len(LowerUpper) - 1
                   ELSE IF StartsAt(s, p, UpperLower) THEN p + Len(UpperLower) - 1
                   ELSE 0

RECURSIVE FindGroup1(_, _, _, _)
\* group 1 is s[i..j]; try the longest first
FindGroup1(s, q, i, j) ==
    IF j < i THEN NoMatch
    ELSE LET e2 == Group2End(s, j + 1)
             e3 == IF e2 = 0 THEN 0 ELSE LastAt(s, q, e2 + 1, RunEnd(s, e2 + 1))
         IN  IF e3 # 0
             THEN [found |-> TRUE, start |-> i, g1end |-> j, g2end |-> e2, end |-> e3]
             ELSE FindGroup1(s, q, i, j - 1)

FindMatchAtUnopened(s, q, i) ==
    IF s[i] = NL THEN NoMatch ELSE FindGroup1(s, q, i, RunEnd(s, i + 1))

\* (q[^\n]*)(a-zA-Z|A-Za-z)([^\n]*q) matched at position i
FindMatchAt(s, q, i) ==
    IF s[i] # q THEN NoMatch ELSE FindGroup1(s, q, i, RunEnd(s, i + 1))

AllowSpecialChars ==
    << "s", "t", "r", "i", "n", "g", " ",
       "a", "l", "l", "o", "w", "S", "p", "e", "c", "i", "a", "l", "C", "h", "a", "r", "s" >>

\* the end of .*\) started right after the fixed text: the last ) of the line
TargetedClose(s, i) ==
    LET from == i + Len(AllowSpecialChars)
    IN  LastAt(s, ")", from, RunEnd(s, from))

\* string allowSpecialChars.*\) matched at position i
TargetedMatchAt(s, i) ==
    IF ~StartsAt(s, i, AllowSpecialChars) THEN NoMatch
    ELSE LET e == TargetedClose(s, i)
         IN  IF e = 0 THEN NoMatch
             ELSE [found |-> TRUE, start |-> i, g1end |-> 0, g2end |-> 0, end |-> e]

\* the pattern of rule q; q = ")" stands for the pattern of the targeted rewrite
MatchAt(s, q, i) == IF q = ")" THEN TargetedMatchAt(s, i) ELSE FindMatchAt(s, q, i)

RECURSIVE Search(_, _, _)
\* the leftmost match that starts at pos or later
Search(s, q, pos) ==
    IF pos > Len(s) THEN NoMatch
    ELSE LET m == MatchAt(s, q, pos)
         IN  IF m.found THEN m ELSE Search(s, q, pos + 1)

RECURSIVE SubFrom(_, _, _, _)
\* every match from pos on replaced, the text between the matches kept
SubFrom(s, q, items, pos) ==
    LET m == Search(s, q, pos)
    IN  IF ~m.found THEN Tail_(s, pos)
        ELSE SubSeq(s, pos, m.start - 1)
             \o expand_template(items, << SubSeq(s, m.start, m.g1end),
                                          SubSeq(s, m.g1end + 1, m.g2end),
                                          SubSeq(s, m.g2end + 1, m.end) >>)
             \o SubFrom(s, q, items, m.end + 1)

Groups(q) == IF q = ")" THEN 0 ELSE 3

ReError == [ok |-> FALSE, text |-> << >>]

\* re.sub(pattern of q, template, s): the new text, or the error of a bad template
re_sub(q, template, s) ==
    LET t == parse_template(template, Groups(q))
    IN  IF ~t.ok THEN ReError
        ELSE [ok |-> TRUE, text |-> SubFrom(s, q, t.items, 1)]

\* re.findall(pattern of q, s) is not empty
re_findall(q, s) == Search(s, q, 1).found

(***************************************************************************)
(* The rule set FIND and the template of the targeted rewrite.             *)
(***************************************************************************)
\* FIND.items() in order: the double-quote rule, then the single-quote rule
FindQuote(r) == IF r = 1 THEN DQ ELSE SQ

FindTemplate(w, r) ==
    << BS, "1", BS, "2" >> \o escape_str(w, r = 2) \o << BS, "3" >>

ExtensionsTemplate(w) ==
    AllowSpecialChars \o << " ", "=", " ", DQ >> \o escape_str(w, TRUE) \o << DQ, ")" >>

(***************************************************************************)
(* File names and the dispatch of the walk.                                *)
(***************************************************************************)
ExtensionsCs == << "E", "x", "t", "e", "n", "s", "i", "o", "n", "s", ".", "c", "s" >>
DotCs == << ".", "c", "s" >>

\* os.path.splitext of a file name: << root, extension >>
splitext(name) ==
    LET dots == {k \in 1..Len(name) : name[k] = "."}
        dot == IF dots = {} THEN 0 ELSE CHOOSE k \in dots : \A j \in dots : j <= k
    IN  IF dot > 0 /\ \E k \in 1..(dot - 1) : name[k] # "."
        THEN << SubSeq(name, 1, dot - 1), SubSeq(name, dot, Len(name)) >>
        ELSE << name, << >> >>

DispatchByExtension(name) ==
    IF splitext(name)[2] = DotCs THEN "cs"
    ELSE IF name = ExtensionsCs THEN "ext"
    ELSE "skip"

\* the branch of the loop body a file takes
Dispatch(name) ==
    IF name = ExtensionsCs THEN "ext"
    ELSE IF splitext(name)[2] = DotCs THEN "cs"
    ELSE "skip"

(***************************************************************************)
(* State.                                                                  *)
(***************************************************************************)
VARIABLES
    WHITELIST_CHARS,   \* the line read by input()
    tree,              \* the files under Il2CppInspector.Common when the walk starts
    disk,              \* path -> the text the file holds now
    todo,              \* the paths os.walk has not yielded yet
    path,              \* the file of the current loop iteration
    content,           \* the local variable content
    before,            \* content as it was before the latest re.sub
    rule,              \* how many rules of FIND have been applied to content
    pc,                \* the position in the script
    stdout,            \* the paths printed as "Successfully modified <path>"
    events,            \* the open/read/write attempts made so far
    error              \* the exception that ended the run

vars == << WHITELIST_CHARS, tree, disk, todo, path, content, before, rule, pc,
           stdout, events, error >>

NoPath == << >>
NoError == [type |-> "none", op |-> "none", enc |-> "none"]

Name(p) == p[2]
\* os.walk is top-down: the files of the root come before those of a subdirectory
Depth(p) == IF p[1] = "top" THEN 0 ELSE 1

Event(op, branch, enc, result, text) ==
    [op |-> op, path |-> path, branch |-> branch, enc |-> enc, result |-> result,
     rules |-> rule, text |-> text]

Raise(type, op, enc) ==
    /\ pc' = "crashed"
    /\ error' = [type |-> type, op |-> op, enc |-> enc]

(***************************************************************************)
(* Inputs: the whitelist typed in and the files found under the root.      *)
(***************************************************************************)
Alphabet == {BS, DQ, SQ, "n", "1", "X"}
Strings(n) == UNION {[1..k -> Alphabet] : k \in 0..n}

XYZ == << "X", "Y", "Z" >>
CoreWhitelists == {<< >>, XYZ, << "Q" >>, << BS >>, << DQ >>, << SQ >>,
                   << "1" >>, << "1", "1" >>, << BS, "n" >>}

LineX == << "x", " ", "=", " ", "1", ";" >>
LineLiteral == << DQ, "a", "-", "z", "A", "-", "Z", DQ >>
LineSingle == << SQ, "A", "-", "Z", "a", "-", "z", SQ >>
LineHello == << DQ, "h", "e", "l", "l", "o", " ", "w", "o", "r", "l", "d", DQ >>
LineTwoLiterals == 
    << DQ, "a", "-", "z", "A", "-", "Z", DQ, " ", DQ, "A", "-", "Z", "a", "-", "z", DQ
    >>
LineUnopened == << "x", " ", "a", "-", "z", "A", "-", "Z", DQ >>
CsLines == {LineX, LineLiteral, LineSingle, LineHello, LineTwoLiterals, LineUnopened}

LineDecl == 
    << "s", "t", "r", "i", "n", "g", " ", "a", "l", "l", "o", "w", "S", "p", "e", "c",
    "i", "a", "l", "C", "h", "a", "r", "s", " ", "=", " ", DQ, "a", "b", "c", DQ, ")" >>
LineCall == 
    << "f", "(", "s", "t", "r", "i", "n", "g", " ", "a", "l", "l", "o", "w", "S", "p",
    "e", "c", "i", "a", "l", "C", "h", "a", "r", "s", " ", "=", " ", DQ, "a", "b", "c",
    DQ, ")", " ", "{", " ", "g", "(", ")", ";", " ", "}" >>
LineNoParen == 
    << "s", "t", "r", "i", "n", "g", " ", "a", "l", "l", "o", "w", "S", "p", "e", "c",
    "i", "a", "l", "C", "h", "a", "r", "s", " ", "=", " ", DQ, "a", "b", "c", DQ >>
LineParen == << "g", "(", ")", ";" >>
ExtLines == {LineDecl, LineCall, LineNoParen, LineParen}

RECURSIVE JoinLines(_)
JoinLines(ls) == IF ls = << >> THEN << >>
                 ELSE IF Len(ls) = 1 THEN ls[1]
                 ELSE ls[1] \o << NL >> \o JoinLines(Tail(ls))

\* the texts of at most n lines
Texts(lines, n) == {JoinLines(ls) : ls \in UNION {[1..k -> lines] : k \in 0..n}}

ACs == << "A", ".", "c", "s" >>
BTxt == << "B", ".", "t", "x", "t" >>
CsBak == << "A", ".", "c", "s", ".", "b", "a", "k" >>

OneFile(name, text) == [p \in {<< "top", name >>} |-> text]

SingleTrees == {OneFile(ACs, t) : t \in Texts(CsLines, MaxLines)}
               \cup {OneFile(ExtensionsCs, t) : t \in Texts(ExtLines, MaxLines)}

MixedTree == (<< "top", ExtensionsCs >> :> LineCall) @@ (<< "sub", ACs >> :> LineLiteral)
             @@ (<< "top", BTxt >> :> LineLiteral)
NoCsTree == (<< "top", BTxt >> :> LineLiteral) @@ (<< "sub", DotCs >> :> LineLiteral)
            @@ (<< "top", CsBak >> :> LineDecl)
EmptyTree == [p \in {} |-> << >>]
MultiTrees == {MixedTree, NoCsTree, EmptyTree}

CoreTrees == {OneFile(ACs, LineLiteral), OneFile(ACs, LineUnopened),
              OneFile(ExtensionsCs, LineCall)}

Inputs == (Strings(MaxWl) \X CoreTrees)
          \cup (CoreWhitelists \X (SingleTrees \cup MultiTrees))

Init ==
    /\ \E in \in Inputs : WHITELIST_CHARS = in[1] /\ tree = in[2]
    /\ disk = tree
    /\ todo = DOMAIN tree
    /\ path = NoPath
    /\ content = << >>
    /\ before = << >>
    /\ rule = 0
    /\ pc = "walk"
    /\ stdout = << >>
    /\ events = {}
    /\ error = NoError

(***************************************************************************)
(* The walk.                                                               *)
(***************************************************************************)
Visit(branch, next) ==
    /\ \E p \in todo :
          /\ \A o \in todo : Depth(p) <= Depth(o)
          /\ Dispatch(Name(p)) = branch
          /\ path' = p
          /\ todo' = todo \ {p}
    /\ pc' = next
    /\ rule' = 0
    /\ UNCHANGED << WHITELIST_CHARS, tree, disk, content, before, stdout, events, error >>

VisitExtensions ==
    /\ pc = "walk"
    /\ Visit("ext", "ext_read")
VisitCs ==
    /\ pc = "walk"
    /\ Visit("cs", "cs_read")
VisitOther ==
    /\ pc = "walk"
    /\ Visit("skip", "walk")

Finish ==
    /\ pc = "walk"
    /\ todo = {}
    /\ pc' = "done"
    /\ UNCHANGED << WHITELIST_CHARS, tree, disk, todo, path, content, before, rule,
                    stdout, events, error >>

(***************************************************************************)
(* Reading and writing a file.  An attempt ends well or raises; only       *)
(* UnicodeEncodeError raised by the first attempt is caught.               *)
(***************************************************************************)
Catches(enc, outcome) == enc = "default" /\ outcome = "UnicodeEncodeError"

Read(branch, enc, next, retry) ==
    /\ \E outcome \in {"ok", "UnicodeDecodeError", "UnicodeEncodeError", "OSError"} :
          /\ events' = events \cup
                 {Event("read", branch, enc, outcome,
                        IF outcome = "ok" THEN disk[path] ELSE << >>)}
          /\ IF outcome = "ok"
             THEN content' = disk[path] /\ pc' = next /\ error' = error
             ELSE IF Catches(enc, outcome)
             THEN content' = content /\ pc' = retry /\ error' = error
             ELSE content' = content /\ Raise(outcome, "read", enc)
    /\ UNCHANGED << WHITELIST_CHARS, tree, disk, todo, path, before, rule, stdout >>

\* open(path, 'w') empties the file; a write that raises may leave it empty
Write(branch, enc, next, retry) ==
    /\ \E outcome \in {"ok", "UnicodeEncodeError", "OSError"}, emptied \in BOOLEAN :
          /\ outcome = "ok" => ~emptied
          /\ events' = events \cup {Event("write", branch, enc, outcome, content)}
          /\ disk' = IF outcome = "ok" THEN [disk EXCEPT ![path] = content]
                     ELSE IF emptied THEN [disk EXCEPT ![path] = << >>]
                     ELSE disk
          /\ IF outcome = "ok" THEN pc' = next /\ error' = error
             ELSE IF Catches(enc, outcome) THEN pc' = retry /\ error' = error
             ELSE Raise(outcome, "write", enc)
    /\ UNCHANGED << WHITELIST_CHARS, tree, todo, path, content, before, rule, stdout >>

(***************************************************************************)
(* The Extensions.cs branch.                                               *)
(***************************************************************************)
ExtRead ==
    /\ pc = "ext_read"
    /\ Read("ext", "default", "ext_sub", "ext_read_utf8")
ExtReadUtf8 ==
    /\ pc = "ext_read_utf8"
    /\ Read("ext", "utf-8", "ext_sub", "ext_sub")

ExtSub ==
    /\ pc = "ext_sub"
    /\ LET r == re_sub(")", ExtensionsTemplate(WHITELIST_CHARS), content)
       IN  IF r.ok
           THEN /\ content' = r.text
                /\ before' = content
                /\ stdout' = Append(stdout, path)
                /\ pc' = "ext_write"
                /\ error' = error
           ELSE /\ Raise("re.error", "sub", "none")
                /\ UNCHANGED << content, before, stdout >>
    /\ UNCHANGED << WHITELIST_CHARS, tree, disk, todo, path, rule, events >>

ExtWrite ==
    /\ pc = "ext_write"
    /\ Write("ext", "default", "walk", "ext_write_utf8")
ExtWriteUtf8 ==
    /\ pc = "ext_write_utf8"
    /\ Write("ext", "utf-8", "walk", "walk")

(***************************************************************************)
(* The .cs branch: for each rule of FIND, substitute, report, write.       *)
(***************************************************************************)
CsRead ==
    /\ pc = "cs_read"
    /\ Read("cs", "default", "cs_rule", "cs_read_utf8")
CsReadUtf8 ==
    /\ pc = "cs_read_utf8"
    /\ Read("cs", "utf-8", "cs_rule", "cs_rule")

CsRule ==
    /\ pc = "cs_rule"
    /\ rule < 2
    /\ LET q == FindQuote(rule + 1)
           r == re_sub(q, FindTemplate(WHITELIST_CHARS, rule + 1), content)
       IN  IF r.ok
           THEN /\ content' = r.text
                /\ before' = content
                /\ rule' = rule + 1
                /\ stdout' = IF re_findall(q, r.text) THEN Append(stdout, path)
                             ELSE stdout
                /\ pc' = "cs_write"
                /\ error' = error
           ELSE /\ Raise("re.error", "sub", "none")
                /\ UNCHANGED << content, before, rule, stdout >>
    /\ UNCHANGED << WHITELIST_CHARS, tree, disk, todo, path, events >>

AfterWrite == IF rule < 2 THEN "cs_rule" ELSE "walk"

CsWrite ==
    /\ pc = "cs_write"
    /\ Write("cs", "default", AfterWrite, "cs_write_utf8")
CsWriteUtf8 ==
    /\ pc = "cs_write_utf8"
    /\ Write("cs", "utf-8", AfterWrite, AfterWrite)

Next == \/ VisitExtensions
        \/ VisitCs
        \/ VisitOther
        \/ Finish
        \/ ExtRead
        \/ ExtReadUtf8
        \/ ExtSub
        \/ ExtWrite
        \/ ExtWriteUtf8
        \/ CsRead
        \/ CsReadUtf8
        \/ CsRule
        \/ CsWrite
        \/ CsWriteUtf8

Spec == Init /\ [][Next]_vars

(***************************************************************************)
(* escape_str on its own: the two calls that build FIND, for any input.    *)
(***************************************************************************)
InitEscape ==
    /\ WHITELIST_CHARS \in Strings(MaxEsc)
    /\ tree = EmptyTree
    /\ disk = EmptyTree
    /\ todo = {}
    /\ path = NoPath
    /\ content = << >>
    /\ before = << >>
    /\ rule = 0
    /\ pc = "escape"
    /\ stdout = << >>
    /\ events = {}
    /\ error = NoError

Escape(single_quote, next) ==
    /\ content' = escape_str(WHITELIST_CHARS, single_quote)
    /\ pc' = next
    /\ UNCHANGED << WHITELIST_CHARS, tree, disk, todo, path, before, rule, stdout,
                    events, error >>

EscapeDouble ==
    /\ pc = "escape"
    /\ Escape(FALSE, "escaped_double")
EscapeSingle ==
    /\ pc = "escape"
    /\ Escape(TRUE, "escaped_single")

NextEscape == EscapeDouble \/ EscapeSingle

SpecEscape == InitEscape /\ [][NextEscape]_vars

(***************************************************************************)
(* What the claims speak of, stated without the matchers above.            *)
(***************************************************************************)
SameLine(s, a, b) == \A k \in a..b : s[k] # NL

LiteralTextAt(s, p) == StartsAt(s, p, LowerUpper) \/ StartsAt(s, p, UpperLower)

\* a-zA-Z or A-Za-z at p with a quote q before it and after it on its line
Enclosed(s, q, p) ==
    /\ LiteralTextAt(s, p)
    /\ \E i \in 1..(p - 1) : s[i] = q /\ SameLine(s, i, p)
    /\ \E e \in (p + 6)..Len(s) : s[e] = q /\ SameLine(s, p, e)

\* on each line, the last enclosed occurrence
Targets(s, q) ==
    {p \in 1..Len(s) :
        /\ Enclosed(s, q, p)
        /\ ~\E p2 \in (p + 1)..Len(s) : Enclosed(s, q, p2) /\ SameLine(s, p, p2)}

RECURSIVE Rewritten(_, _, _, _)
\* s from k on, with the six characters at each target replaced by what the
\* template items make of them (they are group 2)
Rewritten(s, T, items, k) ==
    IF k > Len(s) THEN << >>
    ELSE IF k \in T
         THEN expand_template(items, << << >>, SubSeq(s, k, k + 5), << >> >>)
              \o Rewritten(s, T, items, k + 6)
         ELSE << s[k] >> \o Rewritten(s, T, items, k + 1)

Literals(text) == [k \in 1..Len(text) |-> Lit(text[k])]

\* the matched text followed by ins
Followed(ins) == << Group(2) >> \o Literals(ins)

\* a whitelist that neither escape_str nor the template language touches
PlainWhitelist(w) ==
    /\ \A k \in 1..Len(w) : w[k] \notin {BS, DQ, SQ}
    /\ w # << >> => w[1] \notin Digits

\* the opening quotes of the literals of kind q, quotes paired from the left on each
\* line, that hold a-zA-Z or A-Za-z
MatchingLiterals(s, q) ==
    {i \in 1..Len(s) :
        /\ s[i] = q
        /\ Cardinality({k \in 1..(i - 1) : s[k] = q /\ SameLine(s, k, i)}) % 2 = 0
        /\ \E e \in (i + 1)..Len(s) :
              /\ s[e] = q
              /\ SameLine(s, i, e)
              /\ \A k \in (i + 1)..(e - 1) : s[k] # q
              /\ \E p \in (i + 1)..(e - 6) : LiteralTextAt(s, p)}

\* some double-quoted literal on one line holds an ASCII letter
HasLetterLiteral(s) ==
    \E i, e \in 1..Len(s) :
        /\ i < e /\ s[i] = DQ /\ s[e] = DQ /\ SameLine(s, i, e)
        /\ \E k \in (i + 1)..(e - 1) : s[k] \in AsciiLetters

NoQuotedLiteral(s) ==
    \A q \in {DQ, SQ} :
        ~\E i, e \in 1..Len(s) : i < e /\ s[i] = q /\ s[e] = q /\ SameLine(s, i, e)

\* the first "string allowSpecialChars" of a line that has a ) after it
SpanStarts(s) ==
    {a \in 1..Len(s) :
        /\ StartsAt(s, a, AllowSpecialChars)
        /\ \E b \in (a + Len(AllowSpecialChars))..Len(s) : s[b] = ")" /\ SameLine(s, a, b)
        /\ ~\E a2 \in 1..(a - 1) : StartsAt(s, a2, AllowSpecialChars) /\ SameLine(s, a2, a)}

\* the last ) of the line of a
SpanEnd(s, a) ==
    CHOOSE b \in a..Len(s) :
        /\ s[b] = ")" /\ SameLine(s, a, b)
        /\ ~\E b2 \in (b + 1)..Len(s) : s[b2] = ")" /\ SameLine(s, b, b2)

RECURSIVE SpanRewritten(_, _, _)
SpanRewritten(s, decl, k) ==
    IF k > Len(s) THEN << >>
    ELSE IF k \in SpanStarts(s)
         THEN decl \o SpanRewritten(s, decl, SpanEnd(s, k) + 1)
         ELSE << s[k] >> \o SpanRewritten(s, decl, k + 1)

\* string allowSpecialChars = "value")
Declaration(value) == AllowSpecialChars \o << " ", "=", " ", DQ >> \o value \o << DQ, ")" >>

RECURSIVE WellEscaped(_, _, _)
\* s from k on read as escape pairs: no backslash without a partner, no bare q
WellEscaped(s, q, k) ==
    IF k > Len(s) THEN TRUE
    ELSE IF s[k] = BS THEN k < Len(s) /\ WellEscaped(s, q, k + 2)
    ELSE IF s[k] = q THEN FALSE
    ELSE WellEscaped(s, q, k + 1)

IsCsName(name) ==
    /\ Len(name) > Len(DotCs)
    /\ SubSeq(name, Len(name) - 2, Len(name)) = DotCs
    /\ \E k \in 1..(Len(name) - 3) : name[k] # "."

\* the loop body has run to its end for p
Processed(p) == p \in DOMAIN tree /\ p \notin todo /\ (path = p => pc \in {"walk", "done"})

Written(p, text) ==
    \E e \in events : e.op = "write" /\ e.path = p /\ e.result = "ok" /\ e.text = text

HelloXYZ == << DQ, "h", "X", "Y", "Z", "e", "l", "l", "o", " ", "w", "o", "r", "l", "d", DQ >>
LiteralXYZ == << DQ, "a", "-", "z", "A", "-", "Z", "X", "Y", "Z", DQ >>

(***************************************************************************)
(* The claims.                                                             *)
(***************************************************************************)

\* C1, as claimed: the double-quote rule matches every double-quoted literal on one
\* line that holds an ASCII letter and inserts the whitelist after a letter of it, so
\* that a non-empty whitelist changes the text and "hello world" with XYZ becomes
\* "hXYZello world".
C1_AnyLetterLiteral ==
    (pc = "cs_write" /\ rule = 1) =>
        /\ (HasLetterLiteral(before) /\ WHITELIST_CHARS # << >>) => content # before
        /\ (WHITELIST_CHARS = XYZ /\ before = LineHello) => content = HelloXYZ

\* C1, amended: the double-quote rule rewrites, on each line, the last a-zA-Z or
\* A-Za-z that has a double quote before it and after it, to what the template
\* \2<escaped whitelist> makes of it: the text itself followed by the whitelist when
\* the whitelist is plain.  Nothing else changes; with XYZ, "hello world" stays and
\* "a-zA-Z" becomes "a-zA-ZXYZ".
C1_LiteralTextMatched ==
    (pc = "cs_write" /\ rule = 1) =>
        LET T == Targets(before, DQ)
            mid == parse_template(<< BS, "2" >> \o escape_str(WHITELIST_CHARS, FALSE), 3)
        IN  /\ mid.ok
            /\ content = Rewritten(before, T, mid.items, 1)
            /\ T = {} => content = before
            /\ PlainWhitelist(WHITELIST_CHARS) =>
                  content = Rewritten(before, T, Followed(WHITELIST_CHARS), 1)
            /\ (WHITELIST_CHARS = XYZ /\ before = LineHello) => content = LineHello
            /\ (WHITELIST_CHARS = XYZ /\ before = LineLiteral) => content = LiteralXYZ

C1_Witness ==
    /\ pc = "cs_write" /\ rule = 1
    /\ WHITELIST_CHARS = XYZ /\ before = LineLiteral /\ content = LiteralXYZ

\* C2: the default value the targeted rewrite emits is the whitelist escaped for a
\* double-quoted literal, escape_str(whitelist, False).
C2_DefaultValueEscapedForDoubleQuotes ==
    pc = "ext_write" =>
        content = SpanRewritten(before, Declaration(escape_str(WHITELIST_CHARS, FALSE)), 1)

\* C3: an attempt with the default encoding that raises a Unicode decoding or
\* encoding error does not end the run; the same operation is tried again with UTF-8.
C3_UnicodeErrorsRetried ==
    /\ pc = "crashed" =>
          ~(error.enc = "default"
            /\ error.type \in {"UnicodeDecodeError", "UnicodeEncodeError"})
    /\ \A e \in events :
          (e.enc = "default" /\ e.result \in {"UnicodeDecodeError", "UnicodeEncodeError"}) =>
              \/ path = e.path /\ pc \in {"ext_read_utf8", "ext_write_utf8",
                                           "cs_read_utf8", "cs_write_utf8"}
              \/ \E r \in events : /\ r.path = e.path /\ r.op = e.op
                                   /\ r.rules = e.rules /\ r.enc = "utf-8"

\* C4: the targeted rewrite replaces, on a line, the span from string allowSpecialChars
\* to the last ) by string allowSpecialChars = "<escaped whitelist>") and nothing
\* else; with Q, string allowSpecialChars = "abc") becomes string allowSpecialChars = "Q").
\* The escaped whitelist is taken to be either result of escape_str.
C4_SpanReplacedByEscapedWhitelist ==
    pc = "ext_write" =>
        /\ \E single_quote \in BOOLEAN :
              content = SpanRewritten(before,
                            Declaration(escape_str(WHITELIST_CHARS, single_quote)), 1)
        /\ (WHITELIST_CHARS = << "Q" >> /\ before = LineDecl) =>
              content = Declaration(<< "Q" >>)

\* The part of C4 that is about the span: it runs to the last ) of the line, and the
\* text outside it is kept; what replaces it is what the template yields.
TargetedSpanToLastParen ==
    pc = "ext_write" =>
        LET t == parse_template(ExtensionsTemplate(WHITELIST_CHARS), 0)
        IN  t.ok /\ content = SpanRewritten(before, expand_template(t.items, << >>), 1)

\* C5: escape_str(s, False) read as escape pairs has no bare double quote and no
\* backslash without a partner; escape_str(s, True) none of single quotes.
C5_NothingUnescaped ==
    /\ pc = "escaped_double" => WellEscaped(content, DQ, 1)
    /\ pc = "escaped_single" => WellEscaped(content, SQ, 1)

C5_Witness ==
    /\ pc = "escaped_double"
    /\ WHITELIST_CHARS = << BS, SQ, DQ >>
    /\ content = << BS, BS, SQ, BS, DQ >>

C7_Dispatch ==
    /\ \A e \in events :
          /\ e.branch \in {"ext", "cs"}
          /\ e.branch = "ext" <=> Name(e.path) = ExtensionsCs
          /\ e.branch = "cs" => IsCsName(Name(e.path))
          /\ e.branch = "ext" => e.rules = 0
    /\ \A k \in 1..Len(stdout) : IsCsName(Name(stdout[k]))
    /\ \A p \in DOMAIN tree : ~IsCsName(Name(p)) => disk[p] = tree[p]
    /\ (\A p \in DOMAIN tree : ~IsCsName(Name(p))) => (events = {} /\ stdout = << >>)
    /\ \A p \in DOMAIN tree :
          (Processed(p) /\ IsCsName(Name(p))) =>
              IF Name(p) = ExtensionsCs
              THEN Written(p, re_sub(")", ExtensionsTemplate(WHITELIST_CHARS), tree[p]).text)
              ELSE \E w \in events : /\ w.path = p /\ w.op = "write" /\ w.result = "ok"
                                     /\ w.branch = "cs" /\ w.rules = 2

C7_Witness ==
    /\ pc = "done" /\ tree = MixedTree
    /\ \E e \in events : e.branch = "ext" /\ e.op = "write" /\ e.result = "ok"
    /\ \E e \in events : e.branch = "cs" /\ e.op = "write" /\ e.result = "ok"
    /\ disk[<< "top", BTxt >>] = LineLiteral

\* C8: what a rule puts in place of a match is group 1, group 2, then
\* escape_str(whitelist, context) character for character, then group 3.
C8_EscapedWhitelistVerbatim ==
    pc = "cs_write" =>
        content = Rewritten(before, Targets(before, FindQuote(rule)),
                            Followed(escape_str(WHITELIST_CHARS, rule = 2)), 1)

\* C9: a rule inserts the whitelist once in each literal of its kind that matches, so
\* k such literals, several of them on one line or not, make k insertions.  Stated
\* for plain whitelists, where each insertion adds the length of the whitelist.
C9_EveryMatchingLiteral ==
    (pc = "cs_write" /\ PlainWhitelist(WHITELIST_CHARS)) =>
        Len(content) = Len(before)
            + Cardinality(MatchingLiterals(before, FindQuote(rule))) * Len(WHITELIST_CHARS)

\* C10: a .cs file is written only after both rules have been applied, so the file
\* never holds text to which one rule only has been applied.
C10_WrittenAfterBothRules ==
    \A e \in events : (e.op = "write" /\ e.branch = "cs") => e.rules = 2

====
